---- MODULE Spec2Model ----
(***************************************************************************)
(* Transaction reconciliation engine of asaplogistics-backend: pending     *)
(* transactions, the processing lock, the settlement handlers of the       *)
(* Stripe controller (src/unnamed/part_003, part_002, routes part_014) and *)
(* of the OPay controller (src/src/controller/payment.controller.js), and  *)
(* the Firestore transaction that mutates balance, ledger and delivery.    *)
(*                                                                         *)
(* Every handler is an async function: it is cut into one action per       *)
(* awaited store call, so that other handlers interleave exactly where     *)
(* the event loop lets them.                                               *)
(***************************************************************************)
EXTENDS Integers, Sequences, FiniteSets, Bags, TLC

\* ---------------------------------------------------------------- bounds
NHandlers == 2          \* requests in flight over a behaviour
MaxTx == 2              \* pending transactions created over a behaviour
NUsers == 2
InitialBalance == 25    \* wallet.balance of every user at the start
NSockets == 2           \* realtime connections opened over a behaviour
MaxOutbox == 3          \* frames sent over the realtime channel
FundAmounts == {10}     \* amounts asked for a wallet funding
PayAmounts == {10, 25}  \* amounts asked for a delivery payment

Handlers == 1..NHandlers
TxIds == 1..MaxTx
Users == 1..NUsers
Deliveries == {1, 2}
Sockets == 1..NSockets

VARIABLES
  provider,     \* which controller is deployed: "stripe" or "opay"
  production,   \* process.env.NODE_ENV === 'production'
  secretOk,     \* STRIPE_WEBHOOK_SECRET is set, >= 20 chars, not the placeholder
  pending,      \* Firestore pendingTransactions/<id>: the decrypted record or NoDoc
  nextTx,       \* generateTransactionId: the next fresh id
  lock,         \* Realtime DB processingTransactions/<id>: exists, lockedAt
  balance,      \* Firestore users/<uid>.wallet.balance
  version,      \* Firestore update time of users/<uid> (transaction validation)
  ledger,       \* Firestore collection transactions, in commit order
  deliveries,   \* Firestore deliveries/<id>
  req,          \* the requests: each handler's position and locals
  envelope,     \* pendingTransactions/<id>.data: the stored {iv, tag, data}
  hmac,         \* pendingTransactions/<id>.hmac
  charges,      \* the charges created at the payment provider, by reference
  initRes,      \* the response to the last initiation request
  wsClients,    \* the Map uid -> ws of the controller
  sockets,      \* the realtime connections: their uid and readyState
  outbox,       \* the frames sent with ws.send, each with the times it was sent
  walletHistory \* Firestore users/<uid>/walletHistory, in write order

shared == <<pending, nextTx, lock, balance, version, ledger, deliveries>>
config == <<provider, production, secretOk>>
crypto == <<envelope, hmac>>
intake == <<charges, initRes>>
realtime == <<wsClients, sockets, outbox>>
aux == <<crypto, intake, realtime, walletHistory>>
vars == <<provider, production, secretOk, pending, nextTx, lock, balance,
          version, ledger, deliveries, req, envelope, hmac, charges, initRes,
          wsClients, sockets, outbox, walletHistory>>

NoDoc ==
  [uid |-> 0, type |-> "none", amount |-> 0, deliveryId |-> 0,
   paymentIntentId |-> 0]


\* No record at processingTransactions/<id>.
NoLock == [exists |-> FALSE, lockedAt |-> 0]

\* No hmac field in the document.
NoHmac == [of |-> NoDoc]

\* No initiation request answered yet.
NoResponse ==
  [status |-> 0, code |-> "none", handler |-> "none", uid |-> 0,
   deliveryId |-> 0]

\* A connection not yet made.
NoSocket == [uid |-> 0, readyState |-> "none", stage |-> "none"]

Idle ==
  [pc |-> "idle", kind |-> "none", tx |-> 0, caller |-> 0, sigOk |-> TRUE,
   data |-> NoDoc, digest |-> NoHmac, cur |-> 0, ver |-> 0,
   failure |-> "none", res |-> 0, outcome |-> "none"]

\* The response is sent and the locals die with the call: what stays is the
\* record of the request (its kind, its signature) and of how it ended.
Finish(r, status, how) ==
  [Idle EXCEPT !.pc = "done", !.kind = r.kind, !.sigOk = r.sigOk,
               !.res = status, !.outcome = how]

\* Requests arrive in the order of their slots.
Startable(h) ==
  /\ req[h].pc = "idle"
  /\ IF h = 1 THEN TRUE ELSE req[h - 1].pc # "idle"

\* --------------------------------------------------------- paymentCrypto.js
\* generateHmac: HMAC-SHA256 over JSON.stringify(data); the digest stands for
\* the document it was computed over (no two documents share a digest).
GenerateHmac(data) == [of |-> data]

\* verifyHmac: the digest of the data is recomputed and compared.
VerifyHmac(data, h) == GenerateHmac(data) = h

\* JSON.stringify of a record the handlers build: every property becomes a
\* JSON value, 'type' a string and the others numbers.
JsonStringify(plain) ==
  [k \in DOMAIN plain |->
     IF k = "type" THEN [json |-> "string", num |-> 0, text |-> plain[k]]
     ELSE [json |-> "number", num |-> plain[k], text |-> ""]]

\* JSON.parse of such a text.
JsonParse(text) ==
  [k \in DOMAIN text |->
     IF text[k].json = "string" THEN text[k].text ELSE text[k].num]

\* buf.toString('base64'): the canonical encoding of the bytes.
ToBase64(buf) == [bytes |-> buf, form |-> "canonical"]

\* Buffer.from(str, 'base64'): the decoder skips whitespace, accepts the
\* URL-safe alphabet and missing padding and drops unused trailing bits, so
\* strings of any form decode to the same bytes.
FromBase64(str) == str.bytes

\* crypto.randomBytes(12): a nonce no other call draws (the call's number).
RandomBytes(n) == [nonce |-> n, flipped |-> FALSE]

\* AES-256-GCM under encKey: the ciphertext is bound to the iv it was made
\* under, the tag to the iv and the ciphertext; getAuthTag returns 16 bytes.
Cipher(iv, text) == [under |-> iv, plain |-> text, flipped |-> FALSE]
AuthTag(iv, ct) == [iv |-> iv, ct |-> ct, len |-> 16, flipped |-> FALSE]

\* decipher.setAuthTag(tag) without authTagLength takes a tag of any valid
\* length, and decipher.final() compares that many bytes of the expected tag.
Authentic(tag, iv, data) == [AuthTag(iv, data) EXCEPT !.len = tag.len] = tag

\* encryptData: {iv, tag, data}, each base64.
EncryptData(plain, n) ==
  LET iv == RandomBytes(n)
      ciphertext == Cipher(iv, JsonStringify(plain))
  IN [iv |-> ToBase64(iv), tag |-> ToBase64(AuthTag(iv, ciphertext)),
      data |-> ToBase64(ciphertext)]

\* decryptData: the record, or the throw of decipher.final() (ok = FALSE).
DecryptData(obj) ==
  LET iv == FromBase64(obj.iv)
      tag == FromBase64(obj.tag)
      data == FromBase64(obj.data)
  IN IF Authentic(tag, iv, data)
     THEN [ok |-> TRUE, record |-> JsonParse(data.plain)]
     ELSE [ok |-> FALSE, record |-> NoDoc]

\* The data field of a document that does not exist.
NoEnvelope == EncryptData(NoDoc, 0)

\* decryptData does not throw on this envelope.
Decrypts(env) == DecryptData(env).ok

\* ---------------------------------------------------------------- Init
Init ==
  /\ provider \in {"stripe", "opay"}
  /\ production \in BOOLEAN
  /\ secretOk \in (IF provider = "stripe" THEN BOOLEAN ELSE {TRUE})
  /\ pending = [t \in TxIds |-> NoDoc]
  /\ nextTx = 1
  /\ lock = [t \in TxIds |-> NoLock]
  /\ balance = [u \in Users |-> InitialBalance]
  /\ version = [u \in Users |-> 0]
  /\ ledger = <<>>
  /\ deliveries = [d \in Deliveries |->
                     IF d = 1
                     THEN [userId |-> 1, status |-> "confirmed", paid |-> FALSE]
                     ELSE [userId |-> 2, status |-> "pending", paid |-> FALSE]]
  /\ req = [h \in Handlers |-> Idle]
  /\ envelope = [t \in TxIds |-> NoEnvelope]
  /\ hmac = [t \in TxIds |-> NoHmac]
  /\ charges = {}
  /\ initRes = NoResponse
  /\ wsClients = [u \in Users |-> 0]
  /\ sockets = [s \in Sockets |-> NoSocket]
  /\ outbox = EmptyBag
  /\ walletHistory = <<>>

\* ------------------------------------------------- initiation (pending records)
\* The tail of both initiation handlers: the charge is created at the provider
\* under a fresh transactionId, then the pending document is written.  The
\* Stripe controller computes hmac over transactionData and encrypts
\* transactionData plus paymentIntentId; the OPay controller stores no hmac.
Persist(transactionData) ==
  /\ charges' = charges \cup {nextTx}
  /\ pending' = [pending EXCEPT ![nextTx] =
                   [transactionData EXCEPT !.paymentIntentId = nextTx]]
  /\ envelope' = [envelope EXCEPT ![nextTx] =
                    EncryptData([transactionData EXCEPT !.paymentIntentId = nextTx],
                                nextTx)]
  /\ hmac' = [hmac EXCEPT ![nextTx] =
                IF provider = "stripe" THEN GenerateHmac(transactionData)
                ELSE NoHmac]
  /\ nextTx' = nextTx + 1

\* A value of the JSON request body.
JsonNumber(n) == [json |-> "number", num |-> n, text |-> ""]
JsonString(str) == [json |-> "string", num |-> 0, text |-> str]
JsonNull == [json |-> "null", num |-> 0, text |-> ""]
Undefined == [json |-> "undefined", num |-> 0, text |-> ""]

NaN == [nan |-> TRUE, val |-> 0]
Finite(n) == [nan |-> FALSE, val |-> n]

\* Number(string): the numeric literals among the strings drawn, the empty
\* string is 0, anything else is NaN.
StringToNumber(str) ==
  CASE str = "10" -> Finite(10)
    [] str = "" -> Finite(0)
    [] OTHER -> NaN

\* const numericAmount = Number(amount)
ToNumber(x) ==
  CASE x.json = "number" -> Finite(x.num)
    [] x.json = "string" -> StringToNumber(x.text)
    [] x.json = "null" -> Finite(0)
    [] OTHER -> NaN

\* The upper limit initiateWalletFunding of the Stripe controller puts on amounts.
MaxAmount == 1000000

\* isNaN(numericAmount) || numericAmount <= 0 [|| numericAmount > 1000000]:
\* the upper limit exists in the Stripe controller's wallet funding only.
InvalidAmount(n, limited) ==
  n.nan \/ n.val <= 0 \/ (limited /\ n.val > MaxAmount)

\* wsClients.get(uid) is there and its readyState is OPEN.
Connected(u) ==
  IF wsClients[u] = 0 THEN FALSE
  ELSE sockets[wsClients[u]].readyState = "open"

\* ws.send on a connection.
Send(box, sock, event, t) ==
  box (+) SetToBag({[to |-> sock, event |-> event, tx |-> t]})

\* notifyUser: the frame is sent when the registry has an open connection of
\* the user, and dropped otherwise.
NotifyUser(box, u, event, t) ==
  IF Connected(u) THEN Send(box, wsClients[u], event, t) ELSE box

\* The Stripe controller refuses an initiation in production when the caller
\* has no open realtime connection.
WebSocketRequired(u) == provider = "stripe" /\ production /\ ~Connected(u)

\* The response of an initiation handler.  A request routed in over the realtime
\* channel (via # 0) is answered with an api_response frame on that connection;
\* the Stripe controller in production also pushes transaction_initiated.
Respond(status, code, via, rq, t) ==
  /\ initRes' = [status |-> status, code |-> code, handler |-> rq.handler,
                 uid |-> rq.uid, deliveryId |-> rq.deliveryId]
  /\ outbox' =
       LET pushed == IF status = 200 /\ provider = "stripe" /\ production
                     THEN NotifyUser(outbox, rq.uid, "transaction_initiated", t)
                     ELSE outbox
       IN IF via = 0 THEN pushed ELSE Send(pushed, via, "api_response", t)
  /\ UNCHANGED <<wsClients, sockets>>

\* An early return of an initiation handler: nothing is created.
Reject(status, code, via, rq) ==
  /\ Respond(status, code, via, rq, 0)
  /\ UNCHANGED <<pending, nextTx, crypto, charges>>

\* What the provider's create call can do: stripe.paymentIntents.create returns
\* the intent or throws; opayClient.post returns a response, whose code may be
\* other than '00000', or throws.
CallOutcomes ==
  IF provider = "stripe" THEN {"ok", "throws"} ELSE {"ok", "throws", "declined"}

\* Fault: the outcome of the provider call is not looked at.
ChargeCreatedUnchecked(call) == TRUE

\* The handler gets past the provider call: it did not throw and (OPay) the
\* response code is '00000'.
ChargeCreated(call) == call = "ok"

\* The provider call failed: a throw is answered 500 by the handler's catch, a
\* response code other than '00000' is answered 400; nothing was written.
ProviderFailure(call, via, rq) ==
  IF call = "throws" THEN Reject(500, "InitiationFailed", via, rq)
  ELSE Reject(400, "ProviderDeclined", via, rq)

\* initiateWalletFunding: the realtime check, the amount check, then a fresh
\* id, the provider charge and the pending record.
InitiateWalletFunding(u, amount, via, call) ==
  /\ LET n == ToNumber(amount)
         rq == [handler |-> "initiateWalletFunding", uid |-> u, deliveryId |-> 0]
     IN IF WebSocketRequired(u)
        THEN Reject(400, "WEBSOCKET_REQUIRED", via, rq)
        ELSE IF InvalidAmount(n, provider = "stripe")
        THEN Reject(400, "InvalidAmount", via, rq)
        ELSE IF ~ChargeCreated(call)
        THEN ProviderFailure(call, via, rq)
        ELSE /\ nextTx <= MaxTx
             /\ Persist([uid |-> u, type |-> "wallet_funding",
                         amount |-> n.val, deliveryId |-> 0,
                         paymentIntentId |-> 0])
             /\ Respond(200, "OK", via, rq, nextTx)
  /\ UNCHANGED <<lock, balance, version, ledger, deliveries, req, config,
                 walletHistory>>

\* Fault: the status of the delivery is not looked at.
CannotPayOwnerOnly(dl, u) == dl.userId # u

\* delivery.userId !== uid || delivery.status !== 'confirmed'
CannotPay(dl, u) == dl.userId # u \/ dl.status # "confirmed"

\* initiateDeliveryPayment: the delivery must exist, be the caller's, confirmed
\* and unpaid when it is read; nothing records that a payment for it is already
\* pending, and the amount has no upper limit.
InitiateDeliveryPayment(u, d, amount, via, call) ==
  /\ LET n == ToNumber(amount)
         rq == [handler |-> "initiateDeliveryPayment", uid |-> u,
                deliveryId |-> d]
     IN IF WebSocketRequired(u)
        THEN Reject(400, "WEBSOCKET_REQUIRED", via, rq)
        ELSE IF d = 0 \/ InvalidAmount(n, FALSE)
        THEN Reject(400, "InvalidDeliveryOrAmount", via, rq)
        ELSE IF d \notin Deliveries
        THEN Reject(404, "DeliveryNotFound", via, rq)
        ELSE IF CannotPay(deliveries[d], u)
        THEN Reject(403, "CannotPay", via, rq)
        ELSE IF deliveries[d].paid
        THEN Reject(400, "AlreadyPaid", via, rq)
        ELSE IF ~ChargeCreated(call)
        THEN ProviderFailure(call, via, rq)
        ELSE /\ nextTx <= MaxTx
             /\ Persist([uid |-> u, type |-> "delivery_payment",
                         amount |-> n.val, deliveryId |-> d,
                         paymentIntentId |-> 0])
             /\ Respond(200, "OK", via, rq, nextTx)
  /\ UNCHANGED <<lock, balance, version, ledger, deliveries, req, config,
                 walletHistory>>

\* ------------------------------------------------------- per-handler tables
WebhookKinds == {"stripeSucceeded", "stripeFailed", "stripeOther", "opayWebhook"}
SuccessWebhookKinds == {"stripeSucceeded", "opayWebhook"}
ManualKinds == {"manualWalletUpdate", "testRoute", "confirmTransaction",
                "testCompletePayment"}

\* Which handlers wrap the settlement in acquireProcessingLock / finally release.
UsesLock(kind) ==
  kind \in {"stripeSucceeded", "opayWebhook", "confirmTransaction",
            "testCompletePayment"}

\* The response when the pending record is missing.
NotFoundStatus(kind) ==
  IF kind \in {"stripeSucceeded", "stripeFailed"} THEN 200 ELSE 404

\* The response when acquireProcessingLock returned false.
ContentionStatus(kind) ==
  IF kind \in {"stripeSucceeded", "opayWebhook"} THEN 200 ELSE 400

\* The ownership / type check a manual path makes on the decrypted record.
Allowed(kind, caller, doc) ==
  CASE kind = "manualWalletUpdate" ->
         doc.uid = caller /\ doc.type = "wallet_funding"
    [] kind \in {"testRoute", "testCompletePayment"} -> doc.uid = caller
    [] OTHER -> TRUE

\* Fault: the handler goes on without verifying the signature.
SignatureAcceptedAlways(sig) == TRUE

\* stripeWebhook's isTestMode: the secret is missing, short or the placeholder.
StripeTestMode == ~secretOk

\* Whether the event gets past signature verification.
SignatureAccepted(sig) ==
  IF provider = "stripe" THEN StripeTestMode \/ sig
  ELSE (~production) \/ sig

\* Fault: no finally block, the exception leaves the handler at once.
ThrowNoFinally(r, f) == Finish([r EXCEPT !.failure = f], 500, "error")

\* An exception inside the settlement: with a lock held the finally block runs
\* first; then the handler's catch answers 500.
Throw(r, f) ==
  IF UsesLock(r.kind)
  THEN [r EXCEPT !.failure = f, !.pc = "release"]
  ELSE Finish([r EXCEPT !.failure = f], 500, "error")

\* ------------------------------------------------------------ entry points
StripeWebhook(h, kind, t, sig) ==
  /\ provider = "stripe"
  /\ Startable(h)
  /\ LET r == [Idle EXCEPT !.kind = kind, !.tx = t, !.sigOk = sig]
     IN req' = [req EXCEPT ![h] =
          IF ~SignatureAccepted(sig) THEN Finish(r, 400, "rejected")
          ELSE IF kind = "stripeOther" THEN Finish(r, 200, "ignored")
          ELSE [r EXCEPT !.pc = "getPending"]]
  /\ UNCHANGED <<shared, config, aux>>

OpayWebhook(h, success, t, sig) ==
  /\ provider = "opay"
  /\ Startable(h)
  /\ LET r == [Idle EXCEPT !.kind = "opayWebhook", !.tx = t, !.sigOk = sig]
     IN req' = [req EXCEPT ![h] =
          IF ~SignatureAccepted(sig) THEN Finish(r, 400, "rejected")
          ELSE IF ~success THEN Finish(r, 200, "ignored")
          ELSE [r EXCEPT !.pc = "getPending"]]
  /\ UNCHANGED <<shared, config, aux>>

ManualWalletUpdate(h, caller, t) ==
  /\ provider = "stripe"
  /\ Startable(h)
  /\ LET r == [Idle EXCEPT !.kind = "manualWalletUpdate", !.tx = t,
                           !.caller = caller]
     IN req' = [req EXCEPT ![h] =
          IF production THEN Finish(r, 403, "forbidden")
          ELSE [r EXCEPT !.pc = "getPending"]]
  /\ UNCHANGED <<shared, config, aux>>

\* router.post('/test-complete-payment'): registered only outside production.
TestCompletePaymentRoute(h, caller, t) ==
  /\ provider = "stripe"
  /\ ~production
  /\ Startable(h)
  /\ req' = [req EXCEPT ![h] =
       [Idle EXCEPT !.kind = "testRoute", !.tx = t, !.caller = caller,
                    !.pc = "getPending"]]
  /\ UNCHANGED <<shared, config, aux>>

ConfirmTransaction(h, t) ==
  /\ provider = "opay"
  /\ Startable(h)
  /\ req' = [req EXCEPT ![h] =
       [Idle EXCEPT !.kind = "confirmTransaction", !.tx = t,
                    !.pc = "getPending"]]
  /\ UNCHANGED <<shared, config, aux>>

TestCompletePayment(h, caller, t) ==
  /\ provider = "opay"
  /\ ~production
  /\ Startable(h)
  /\ req' = [req EXCEPT ![h] =
       [Idle EXCEPT !.kind = "testCompletePayment", !.tx = t,
                    !.caller = caller, !.pc = "getPending"]]
  /\ UNCHANGED <<shared, config, aux>>

\* ------------------------------------------------------- the awaited steps
\* Fault: the handler does not test pendingDoc.exists before going on.
AfterLookupNoExistsCheck(r, doc) ==
  [r EXCEPT !.data = doc, !.caller = 0,
            !.pc = IF UsesLock(r.kind) THEN "lockRead" ELSE "txGet"]

\* The read of pendingTransactions/<id> and what follows it synchronously:
\* missing record, decryptData, the ownership check.
AfterLookup(r, doc) ==
  IF doc = NoDoc THEN Finish(r, NotFoundStatus(r.kind), "notFound")
  ELSE IF ~Allowed(r.kind, r.caller, doc) THEN Finish(r, 403, "forbidden")
  ELSE IF r.kind = "stripeFailed"
       THEN [r EXCEPT !.data = doc, !.caller = 0, !.pc = "deleteFailed"]
  ELSE [r EXCEPT !.data = doc, !.caller = 0,
                     !.pc = IF UsesLock(r.kind) THEN "lockRead" ELSE "txGet"]

\* decryptData throws before any lock is taken: the handler's catch answers 500.
DecryptFailure(r) == Finish([r EXCEPT !.failure = "DecryptError"], 500, "error")

GetPending(h) ==
  /\ req[h].pc = "getPending"
  /\ LET r == req[h]
         doc == IF pending[r.tx] = NoDoc THEN NoDoc
                ELSE DecryptData(envelope[r.tx]).record
     IN /\ req' = [req EXCEPT ![h] =
          IF pending[r.tx] # NoDoc /\ ~Decrypts(envelope[r.tx])
          THEN DecryptFailure(r)
          ELSE AfterLookup([r EXCEPT !.digest = hmac[r.tx]], doc)]
        /\ outbox' =
             IF r.kind = "stripeFailed" /\ doc # NoDoc /\ Decrypts(envelope[r.tx])
             THEN NotifyUser(outbox, doc.uid, "payment_failed", r.tx)
             ELSE outbox
  /\ UNCHANGED <<shared, config, crypto, intake, wsClients, sockets,
                 walletHistory>>

\* Fault: snapshot.exists() is not looked at.
AfterLockReadUnchecked(r, exists) == [r EXCEPT !.pc = "lockSet"]

\* acquireProcessingLock, first await: lockRef.once('value').
AfterLockRead(r, exists) ==
  IF exists THEN Finish(r, ContentionStatus(r.kind), "contention")
  ELSE [r EXCEPT !.pc = "lockSet"]

AcquireLockRead(h) ==
  /\ req[h].pc = "lockRead"
  /\ req' = [req EXCEPT ![h] = AfterLockRead(req[h], lock[req[h].tx].exists)]
  /\ UNCHANGED <<shared, config, aux>>

\* acquireProcessingLock, second await: lockRef.set({lockedAt}); returns true.
\* lockedAt is Date.now() of the call: the request's own reading of the clock.
AcquireLockSet(h) ==
  /\ req[h].pc = "lockSet"
  /\ lock' = [lock EXCEPT ![req[h].tx] = [exists |-> TRUE, lockedAt |-> h]]
  /\ req' = [req EXCEPT ![h] = [@ EXCEPT !.pc = "txGet"]]
  /\ UNCHANGED <<pending, nextTx, balance, version, ledger, deliveries, config, aux>>

\* Fault: a failed call of the lock store is taken for an acquired lock.
LockStoreFailureProceeds(r) == [r EXCEPT !.pc = "txGet"]

\* lockRef.once or lockRef.set rejects: acquireProcessingLock throws, outside
\* the try/finally of its caller, and the handler's catch answers 500.
LockStoreFailure(r) ==
  Finish([r EXCEPT !.failure = "LockStoreError"], 500, "lockError")

\* The Realtime Database rejects lockRef.once('value').
AcquireLockReadFails(h) ==
  /\ req[h].pc = "lockRead"
  /\ req' = [req EXCEPT ![h] = LockStoreFailure(req[h])]
  /\ UNCHANGED <<shared, config, aux>>

\* The Realtime Database rejects lockRef.set({lockedAt}): nothing is written.
AcquireLockSetFails(h) ==
  /\ req[h].pc = "lockSet"
  /\ req' = [req EXCEPT ![h] = LockStoreFailure(req[h])]
  /\ UNCHANGED <<shared, config, aux>>

\* Fault: the balance is not compared with the amount.
InsufficientFundsUnchecked(doc, cur) == FALSE

\* processSuccessfulPayment: the check made on the balance read by t.get.
InsufficientFunds(doc, cur) ==
  provider = "stripe" /\ doc.type = "delivery_payment" /\ cur < doc.amount

\* processSuccessfulPayment: the writes the transaction callback buffers.
Settlement(doc, cur) ==
  IF provider = "stripe" /\ doc.type = "delivery_payment"
  THEN [newBalance |-> cur - doc.amount, entry |-> "debit",
        deliveryId |-> doc.deliveryId]
  ELSE [newBalance |-> cur + doc.amount, entry |-> "credit", deliveryId |-> 0]

\* The event notifyUser is called with at the end of the transaction callback.
SuccessEvent(doc) ==
  IF provider = "opay" THEN "wallet_balance_update"
  ELSE IF doc.type = "delivery_payment" THEN "delivery_paid"
  ELSE "wallet_funded"

\* runTransaction, t.get(userRef) and the callback body up to its return: the
\* writes are buffered and notifyUser is called inside the callback.
TxGet(h) ==
  /\ req[h].pc = "txGet"
  /\ LET r == req[h]
         cur == balance[r.data.uid]
     IN IF InsufficientFunds(r.data, cur)
        THEN /\ req' = [req EXCEPT ![h] = Throw(r, "InsufficientFunds")]
             /\ outbox' = outbox
        ELSE /\ req' = [req EXCEPT ![h] =
                  [r EXCEPT !.cur = cur, !.ver = version[r.data.uid],
                            !.pc = "txCommit"]]
             /\ outbox' = NotifyUser(outbox, r.data.uid, SuccessEvent(r.data), r.tx)
  /\ UNCHANGED <<shared, config, crypto, intake, wsClients, sockets,
                 walletHistory>>

\* The ledger document the transaction inserts; tx, via, prev, txType, sigOk
\* and verified are history: the transaction settled, the handler that settled
\* it, the balance it read, the pending record's type, the event's signature,
\* and whether the hmac stored with the record was the digest of the record.
LedgerEntry(r, w) ==
  [uid |-> r.data.uid, type |-> w.entry, amount |-> r.data.amount,
   deliveryId |-> w.deliveryId, tx |-> r.tx, via |-> r.kind, prev |-> r.cur,
   txType |-> r.data.type, sigOk |-> r.sigOk,
   verified |-> VerifyHmac(r.data, r.digest)]

\* Fault: the ledger insert is made outside the transaction and is lost.
LedgerAfterLost(led, e) == led

LedgerAfter(led, e) == Append(led, e)

DeliveriesAfter(dl, w) ==
  IF w.entry = "debit"
  THEN [dl EXCEPT ![w.deliveryId] = [@ EXCEPT !.paid = TRUE]]
  ELSE dl

BalanceAfter(bal, u, w) == [bal EXCEPT ![u] = w.newBalance]

\* The commit: the user document is unchanged since t.get, and every buffered
\* write is applied in one step.
TxCommit(h) ==
  /\ req[h].pc = "txCommit"
  /\ LET r == req[h]
         u == r.data.uid
         w == Settlement(r.data, r.cur)
     IN /\ version[u] = r.ver
        /\ balance' = BalanceAfter(balance, u, w)
        /\ version' = [version EXCEPT ![u] = @ + 1]
        /\ ledger' = LedgerAfter(ledger, LedgerEntry(r, w))
        /\ deliveries' = DeliveriesAfter(deliveries, w)
        /\ req' = [req EXCEPT ![h] = [r EXCEPT !.pc = "deletePending"]]
  /\ UNCHANGED <<pending, nextTx, lock, config, aux>>

\* The commit is refused because users/<uid> changed since t.get: the SDK runs
\* the callback again.
TxRetry(h) ==
  /\ req[h].pc = "txCommit"
  /\ version[req[h].data.uid] # req[h].ver
  /\ req' = [req EXCEPT ![h] = [@ EXCEPT !.pc = "txGet"]]
  /\ UNCHANGED <<shared, config, aux>>

\* The store fails the transaction: nothing is written, runTransaction rejects.
TxCommitFails(h) ==
  /\ req[h].pc = "txCommit"
  /\ req' = [req EXCEPT ![h] = Throw(req[h], "StoreError")]
  /\ UNCHANGED <<shared, config, aux>>

\* pendingTransactions/<id>.delete() after the settlement.
AfterDelete(r) ==
  IF UsesLock(r.kind) THEN [r EXCEPT !.pc = "release"]
  ELSE Finish(r, 200, "settled")

DeletePending(h) ==
  /\ req[h].pc = "deletePending"
  /\ pending' = [pending EXCEPT ![req[h].tx] = NoDoc]
  /\ envelope' = [envelope EXCEPT ![req[h].tx] = NoEnvelope]
  /\ hmac' = [hmac EXCEPT ![req[h].tx] = NoHmac]
  /\ req' = [req EXCEPT ![h] = AfterDelete(req[h])]
  /\ UNCHANGED <<nextTx, lock, balance, version, ledger, deliveries, config,
                 intake, realtime, walletHistory>>

DeletePendingFails(h) ==
  /\ req[h].pc = "deletePending"
  /\ req' = [req EXCEPT ![h] = Throw(req[h], "StoreError")]
  /\ UNCHANGED <<shared, config, aux>>

\* finally { releaseProcessingLock }, then the response: 200, or the catch's 500.
AfterRelease(r) ==
  IF r.failure = "none" THEN Finish(r, 200, "settled")
  ELSE Finish(r, 500, "error")

ReleaseProcessingLock(h) ==
  /\ req[h].pc = "release"
  /\ lock' = [lock EXCEPT ![req[h].tx] = NoLock]
  /\ req' = [req EXCEPT ![h] = AfterRelease(req[h])]
  /\ UNCHANGED <<pending, nextTx, balance, version, ledger, deliveries, config, aux>>

\* handlePaymentIntentFailed: processFailedPayment notifies, then the delete.
DeleteFailedPending(h) ==
  /\ req[h].pc = "deleteFailed"
  /\ pending' = [pending EXCEPT ![req[h].tx] = NoDoc]
  /\ envelope' = [envelope EXCEPT ![req[h].tx] = NoEnvelope]
  /\ hmac' = [hmac EXCEPT ![req[h].tx] = NoHmac]
  /\ req' = [req EXCEPT ![h] = Finish(req[h], 200, "failed")]
  /\ UNCHANGED <<nextTx, lock, balance, version, ledger, deliveries, config,
                 intake, realtime, walletHistory>>

\* ------------------------------------------------- admin: addMoneyToWallet
\* addMoneyToWallet: the amount check, then the handler's three awaited calls.
AddMoneyToWallet(h, u, amount) ==
  /\ Startable(h)
  /\ LET r == [Idle EXCEPT !.kind = "addMoneyToWallet"]
     IN req' = [req EXCEPT ![h] =
          IF amount <= 0 THEN Finish(r, 400, "rejected")
          ELSE [r EXCEPT !.pc = "adminGet",
                         !.data = [NoDoc EXCEPT !.uid = u, !.type = "admin_credit",
                                                !.amount = amount]]]
  /\ UNCHANGED <<shared, config, aux>>

\* await userRef.get(): currentBalance, outside any transaction.
AdminGet(h) ==
  /\ req[h].pc = "adminGet"
  /\ req' = [req EXCEPT ![h] =
       [@ EXCEPT !.cur = balance[req[h].data.uid], !.pc = "adminUpdate"]]
  /\ UNCHANGED <<shared, config, aux>>

\* await userRef.update({'wallet.balance': currentBalance + amount}).
AdminUpdate(h) ==
  /\ req[h].pc = "adminUpdate"
  /\ LET r == req[h]
     IN /\ balance' = [balance EXCEPT ![r.data.uid] = r.cur + r.data.amount]
        /\ version' = [version EXCEPT ![r.data.uid] = @ + 1]
        /\ req' = [req EXCEPT ![h] = [r EXCEPT !.pc = "adminHistory"]]
  /\ UNCHANGED <<pending, nextTx, lock, ledger, deliveries, config, aux>>

\* await historyRef.set({type: 'admin_credit', ...}) in users/<uid>/walletHistory,
\* then notifyUser and the response.
AdminHistory(h) ==
  /\ req[h].pc = "adminHistory"
  /\ LET r == req[h]
     IN /\ walletHistory' = Append(walletHistory,
             [uid |-> r.data.uid, type |-> "admin_credit",
              amount |-> r.data.amount, previousBalance |-> r.cur,
              newBalance |-> r.cur + r.data.amount])
        /\ outbox' = NotifyUser(outbox, r.data.uid, "wallet_balance_update", 0)
        /\ req' = [req EXCEPT ![h] = Finish(r, 200, "credited")]
  /\ UNCHANGED <<shared, config, crypto, intake, wsClients, sockets>>

\* ------------------------------------------------------ the realtime channel
\* Connections are numbered in the order they are made.
Fresh(sock) ==
  /\ sockets[sock] = NoSocket
  /\ IF sock = 1 THEN TRUE ELSE sockets[sock - 1] # NoSocket

\* wsClients.delete(uid)
Deleted(clients, u) == [clients EXCEPT ![u] = 0]

\* existingWs.close(1000, ...) when it is open: the close handshake starts and
\* the 'close' event of that connection is still to come.
Superseded(socks, prior) ==
  IF prior # 0 /\ socks[prior].readyState = "open"
  THEN [socks EXCEPT ![prior] = [@ EXCEPT !.readyState = "closing"]]
  ELSE socks

\* handleWebSocketConnection of the Stripe controller: the token, the prior
\* connection of the uid, the registration, the 'connected' frame, the handlers.
HandleWebSocketConnection(sock, u, tokenOk) ==
  /\ provider = "stripe"
  /\ Fresh(sock)
  /\ IF ~tokenOk
     THEN /\ sockets' = [sockets EXCEPT ![sock] =
                 [uid |-> 0, readyState |-> "closed", stage |-> "rejected"]]
          /\ UNCHANGED <<wsClients, outbox>>
     ELSE /\ sockets' = [Superseded(sockets, wsClients[u]) EXCEPT ![sock] =
                 [uid |-> u, readyState |-> "open", stage |-> "attached"]]
          /\ wsClients' = [wsClients EXCEPT ![u] = sock]
          /\ outbox' = Send(outbox, sock, "connected", 0)
  /\ UNCHANGED <<shared, config, req, crypto, intake, walletHistory>>

\* handleWebSocketConnection of the OPay controller, up to its await of
\* users/<uid>: no handler is attached yet.
OpayConnection(sock, u, tokenOk) ==
  /\ provider = "opay"
  /\ Fresh(sock)
  /\ sockets' = [sockets EXCEPT ![sock] =
       IF tokenOk THEN [uid |-> u, readyState |-> "open", stage |-> "handshake"]
       ELSE [uid |-> 0, readyState |-> "closed", stage |-> "rejected"]]
  /\ UNCHANGED <<shared, config, req, crypto, intake, wsClients, outbox,
                 walletHistory>>

\* ... and after it: wsClients.set, the 'connected' frame, the handlers.  The
\* prior connection of the uid is left as it is.  ws.send throws on a
\* connection that closed meanwhile; the catch closes it, no handler attached.
OpayRegister(sock) ==
  /\ provider = "opay"
  /\ sockets[sock].stage = "handshake"
  /\ wsClients' = [wsClients EXCEPT ![sockets[sock].uid] = sock]
  /\ IF sockets[sock].readyState = "open"
     THEN /\ outbox' = Send(outbox, sock, "connected", 0)
          /\ sockets' = [sockets EXCEPT ![sock] = [@ EXCEPT !.stage = "attached"]]
     ELSE /\ outbox' = outbox
          /\ sockets' = [sockets EXCEPT ![sock] = [@ EXCEPT !.stage = "rejected"]]
  /\ UNCHANGED <<shared, config, req, crypto, intake, walletHistory>>

\* The 'close' (or 'error') event of a connection, closed by the client, by the
\* network or by the server: ws.on('close') deletes the uid from the registry.
CloseEvent(sock) ==
  /\ sockets[sock].readyState \in {"open", "closing"}
  /\ sockets' = [sockets EXCEPT ![sock] = [@ EXCEPT !.readyState = "closed"]]
  /\ wsClients' = IF sockets[sock].stage = "attached"
                  THEN Deleted(wsClients, sockets[sock].uid)
                  ELSE wsClients
  /\ UNCHANGED <<shared, config, req, crypto, intake, outbox, walletHistory>>

\* ws.on('message') of the Stripe controller: ping and ready_for_payment are
\* answered, anything else is ignored.
StripeMessage(sock, type) ==
  /\ provider = "stripe"
  /\ sockets[sock].stage = "attached"
  /\ sockets[sock].readyState = "open"
  /\ BagCardinality(outbox) < MaxOutbox
  /\ outbox' = CASE type = "ping" -> Send(outbox, sock, "pong", 0)
                  [] type = "ready_for_payment" ->
                       Send(outbox, sock, "payment_ready", 0)
                  [] OTHER -> outbox
  /\ UNCHANGED <<shared, config, req, crypto, intake, wsClients, sockets,
                 walletHistory>>

\* ws.on('message') of the OPay controller: an api_request is routed by
\* handleWebSocketAPIRequest to the initiation handlers, with the uid of the
\* connection; an unknown endpoint is answered 404; other types are ignored.
OpayMessage(sock, type, endpoint, d, amount, call) ==
  /\ provider = "opay"
  /\ sockets[sock].stage = "attached"
  /\ sockets[sock].readyState = "open"
  /\ BagCardinality(outbox) < MaxOutbox
  /\ IF type # "api_request" THEN UNCHANGED vars
     ELSE IF endpoint = "/api/payment/wallet/fund"
     THEN InitiateWalletFunding(sockets[sock].uid, amount, sock, call)
     ELSE IF endpoint = "/api/payment/delivery/pay"
     THEN InitiateDeliveryPayment(sockets[sock].uid, d, amount, sock, call)
     ELSE /\ outbox' = Send(outbox, sock, "api_response", 0)
          /\ UNCHANGED <<shared, config, req, crypto, intake, wsClients, sockets,
                         walletHistory>>

\* An altered base64 field: a bit of the bytes is flipped, the same bytes are
\* written in another form, or (the tag) only its first 4 bytes are kept.
Altered(str, how) ==
  CASE how = "flip" -> [str EXCEPT !.bytes.flipped = TRUE]
    [] how = "recode" -> [str EXCEPT !.form = "alias"]
    [] how = "truncate" -> [str EXCEPT !.bytes.len = 4]

\* The stored envelope is altered (a corrupted or tampered document): one of
\* the three fields decryptData reads no longer is what encryptData wrote.
TamperEnvelope(t, part, how) ==
  /\ pending[t] # NoDoc
  /\ envelope[t] = EncryptData(pending[t], t)
  /\ how = "truncate" => part = "tag"
  /\ envelope' = [envelope EXCEPT ![t] =
                    CASE part = "iv" -> [@ EXCEPT !.iv = Altered(@, how)]
                      [] part = "tag" -> [@ EXCEPT !.tag = Altered(@, how)]
                      [] part = "data" -> [@ EXCEPT !.data = Altered(@, how)]]
  /\ UNCHANGED <<shared, config, req, hmac, intake, realtime, walletHistory>>

\* ---------------------------------------------------------- specifications
\* Initiation requests the handlers accept (the rejected ones create nothing;
\* they are drawn in SpecInitiation).
Initiate ==
  /\ \/ \E u \in Users, amt \in FundAmounts :
          InitiateWalletFunding(u, JsonNumber(amt), 0, "ok")
     \/ \E u \in Users, d \in Deliveries, amt \in PayAmounts :
          InitiateDeliveryPayment(u, d, JsonNumber(amt), 0, "ok")
  /\ initRes'.status = 200

Steps ==
  \E h \in Handlers :
    \/ GetPending(h)
    \/ AcquireLockRead(h)
    \/ AcquireLockSet(h)
    \/ TxGet(h)
    \/ TxCommit(h)
    \/ TxRetry(h)
    \/ DeletePending(h)
    \/ ReleaseProcessingLock(h)

\* A Firestore call rejects.
Faults ==
  \E h \in Handlers :
    \/ TxCommitFails(h)
    \/ DeletePendingFails(h)

StripeEntry ==
  \E h \in Handlers, t \in TxIds :
    \/ \E kind \in {"stripeSucceeded", "stripeFailed", "stripeOther"},
          sig \in BOOLEAN : StripeWebhook(h, kind, t, sig)
    \/ \E caller \in Users : ManualWalletUpdate(h, caller, t)
    \/ \E caller \in Users : TestCompletePaymentRoute(h, caller, t)

StripeSteps == \E h \in Handlers : DeleteFailedPending(h)

OpayEntry ==
  \E h \in Handlers, t \in TxIds :
    \/ \E success \in BOOLEAN, sig \in BOOLEAN : OpayWebhook(h, success, t, sig)
    \/ ConfirmTransaction(h, t)
    \/ \E caller \in Users : TestCompletePayment(h, caller, t)

Next == Initiate \/ Steps \/ Faults \/ StripeEntry \/ StripeSteps \/ OpayEntry

Spec == Init /\ [][Next]_vars

\* The Stripe controller alone.
InitStripe == Init /\ provider = "stripe"
NextStripe == Initiate \/ Steps \/ Faults \/ StripeEntry \/ StripeSteps
SpecStripe == InitStripe /\ [][NextStripe]_vars

\* Both controllers over a store that never fails: what is left is scheduling.
NextReliable == Initiate \/ Steps \/ StripeEntry \/ StripeSteps \/ OpayEntry
SpecReliable == Init /\ [][NextReliable]_vars

\* Provider callbacks with a valid signature.
Callbacks ==
  \E h \in Handlers, t \in TxIds :
    \/ \E kind \in {"stripeSucceeded", "stripeFailed"} :
         StripeWebhook(h, kind, t, TRUE)
    \/ \E success \in BOOLEAN : OpayWebhook(h, success, t, TRUE)

\* No request is in flight.
Quiet == \A h \in Handlers : req[h].pc \in {"idle", "done"}

\* Initiation requests of every kind: bodies with numbers in and out of range,
\* numeric and other strings, a missing amount; deliveries that are
\* missing from the request (0), unknown (3), the caller's or not, payable or not.
BodyAmounts ==
  {JsonNumber(10), JsonNumber(0), JsonNumber(0 - 5), JsonNumber(MaxAmount),
   JsonNumber(MaxAmount + 1), JsonString("10"), JsonString("abc"), Undefined}
DeliveryInputs == {0, 1, 2, 3}
InitiateAny ==
  \/ \E u \in Users, amount \in BodyAmounts :
       InitiateWalletFunding(u, amount, 0, "ok")
  \/ \E u \in Users, d \in DeliveryInputs, amount \in BodyAmounts :
       InitiateDeliveryPayment(u, d, amount, 0, "ok")

\* The steps of a request that runs alone (its transaction is never retried).
SerialSteps ==
  \E h \in Handlers :
    \/ GetPending(h)
    \/ AcquireLockRead(h)
    \/ AcquireLockSet(h)
    \/ TxGet(h)
    \/ TxCommit(h)
    \/ DeletePending(h)
    \/ ReleaseProcessingLock(h)

\* Success callbacks handled one after the other.
SerialSuccess ==
  /\ Quiet
  /\ \E h \in Handlers, t \in TxIds :
       \/ StripeWebhook(h, "stripeSucceeded", t, TRUE)
       \/ OpayWebhook(h, TRUE, t, TRUE)

\* Every initiation request and the settlements, one request at a time.
NextInitiation == (Quiet /\ InitiateAny) \/ SerialSuccess \/ SerialSteps
SpecInitiation == Init /\ [][NextInitiation]_vars

\* Callbacks of both kinds handled one after the other.
SerialCallbacks == Quiet /\ Callbacks

\* Well-formed initiation requests over a provider whose create call may fail.
InitiateCalls ==
  \E call \in CallOutcomes :
    \/ \E u \in Users, amt \in FundAmounts :
         InitiateWalletFunding(u, JsonNumber(amt), 0, call)
    \/ \E u \in Users, d \in Deliveries, amt \in PayAmounts :
         InitiateDeliveryPayment(u, d, JsonNumber(amt), 0, call)
NextProvider == (Quiet /\ InitiateCalls) \/ SerialSuccess \/ SerialSteps
SpecProvider == Init /\ [][NextProvider]_vars

\* Connections made with a good or a bad token, and their close events.
Connections ==
  \/ \E sock \in Sockets, u \in Users, tokenOk \in BOOLEAN :
       \/ HandleWebSocketConnection(sock, u, tokenOk)
       \/ OpayConnection(sock, u, tokenOk)
  \/ \E sock \in Sockets :
       \/ OpayRegister(sock)
       \/ CloseEvent(sock)

\* The frames clients send.
Messages ==
  \E sock \in Sockets :
    \/ \E type \in {"ping", "ready_for_payment", "subscribe"} :
         StripeMessage(sock, type)
    \/ \E type \in {"ping", "api_request"},
           endpoint \in {"/api/payment/wallet/fund", "/api/payment/delivery/pay",
                         "/api/unknown"},
           d \in Deliveries, amount \in {JsonNumber(10)},
           call \in CallOutcomes :
         OpayMessage(sock, type, endpoint, d, amount, call)

\* The realtime channel alone.
NextChannel == Connections \/ Messages
SpecChannel == Init /\ [][NextChannel]_vars

\* Nothing was initiated and no request was received yet.
Setup == nextTx = 1 /\ \A h \in Handlers : req[h].pc = "idle"

\* Users connect, with a good token, before they pay; then the requests are
\* handled one at a time.
GoodConnections ==
  \/ \E sock \in Sockets, u \in Users :
       \/ HandleWebSocketConnection(sock, u, TRUE)
       \/ OpayConnection(sock, u, TRUE)
  \/ \E sock \in Sockets :
       \/ OpayRegister(sock)
       \/ CloseEvent(sock)
NextNotify ==
  \/ Setup /\ GoodConnections
  \/ Quiet /\ Initiate
  \/ SerialCallbacks
  \/ SerialSteps
  \/ StripeSteps
SpecNotify == Init /\ [][NextNotify]_vars

\* Settlements by signed success callbacks next to credits by an admin.
AdminAmounts == {5}
WalletEntry ==
  \E h \in Handlers :
    \/ \E t \in TxIds :
         \/ StripeWebhook(h, "stripeSucceeded", t, TRUE)
         \/ OpayWebhook(h, TRUE, t, TRUE)
    \/ \E u \in Users, amount \in AdminAmounts \cup {0} :
         AddMoneyToWallet(h, u, amount)
AdminSteps ==
  \E h \in Handlers :
    \/ AdminGet(h)
    \/ AdminUpdate(h)
    \/ AdminHistory(h)
NextWallet == Initiate \/ Steps \/ WalletEntry \/ AdminSteps
SpecWallet == Init /\ [][NextWallet]_vars

\* Success callbacks and manual confirmations over a lock store that may fail.
LockFaults ==
  \E h \in Handlers :
    \/ AcquireLockReadFails(h)
    \/ AcquireLockSetFails(h)
Redelivery ==
  \E h \in Handlers, t \in TxIds :
    \/ StripeWebhook(h, "stripeSucceeded", t, TRUE)
    \/ OpayWebhook(h, TRUE, t, TRUE)
    \/ ConfirmTransaction(h, t)
NextLockStore == Initiate \/ Redelivery \/ Steps \/ LockFaults
SpecLockStore == Init /\ [][NextLockStore]_vars

\* Success callbacks delivered one after the other, each after the one before
\* it was answered, over a store whose calls may fail.
NextRetry == (Quiet /\ Initiate) \/ SerialSuccess \/ SerialSteps \/ Faults
SpecRetry == Init /\ [][NextRetry]_vars

\* One wallet funding and the provider's success webhook for it: delivered
\* once the transaction is pending, and delivered again, in the next request,
\* after a response other than 200.  A store call may fail in every delivery but
\* the last one the bound allows.
InitiateOne ==
  /\ nextTx = 1
  /\ \E u \in Users, amt \in FundAmounts :
       InitiateWalletFunding(u, JsonNumber(amt), 0, "ok")
  /\ initRes'.status = 200
SuccessWebhook(h, t) ==
  \/ StripeWebhook(h, "stripeSucceeded", t, TRUE)
  \/ OpayWebhook(h, TRUE, t, TRUE)
FirstDelivery ==
  /\ pending[1] # NoDoc
  /\ SuccessWebhook(1, 1)
RetryDelivery ==
  \E h \in Handlers \ {1} :
    /\ req[h - 1].pc = "done"
    /\ req[h - 1].res # 200
    /\ SuccessWebhook(h, 1)
LiveSteps == SerialSteps
LiveFaults ==
  \E h \in Handlers \ {NHandlers} :
    \/ AcquireLockReadFails(h)
    \/ AcquireLockSetFails(h)
    \/ TxCommitFails(h)
    \/ DeletePendingFails(h)
NextLive ==
  InitiateOne \/ FirstDelivery \/ RetryDelivery \/ LiveSteps \/ LiveFaults
\* The provider delivers and handlers run to completion.
FairLive ==
  /\ WF_vars(FirstDelivery)
  /\ WF_vars(RetryDelivery)
  /\ WF_vars(LiveSteps \/ LiveFaults)
SpecLive == Init /\ [][NextLive]_vars /\ FairLive

\* Both controllers over a store whose envelopes may be altered at any time,
\* the requests handled one at a time.
Tamper ==
  \E t \in TxIds, part \in {"data", "iv", "tag"},
     how \in {"flip", "recode", "truncate"} : TamperEnvelope(t, part, how)
NextEnvelope ==
  \/ Quiet /\ Initiate
  \/ SerialCallbacks
  \/ SerialSteps
  \/ StripeSteps
  \/ Tamper
SpecEnvelope == Init /\ [][NextEnvelope]_vars

\* ------------------------------------------------------------ observations
\* acquireProcessingLock returned true to h for transaction t and h has not
\* yet run releaseProcessingLock.
Holds(h, t) ==
  /\ UsesLock(req[h].kind)
  /\ req[h].tx = t
  /\ req[h].pc \in {"txGet", "txCommit", "deletePending", "release"}

EntriesOf(t) == {i \in DOMAIN ledger : ledger[i].tx = t}

DebitsOf(d) ==
  {i \in DOMAIN ledger : ledger[i].type = "debit" /\ ledger[i].deliveryId = d}

RECURSIVE Delta(_, _)
Delta(led, u) ==
  IF led = <<>> THEN 0
  ELSE LET e == Head(led)
       IN (IF e.uid # u THEN 0
           ELSE IF e.type = "credit" THEN e.amount ELSE 0 - e.amount)
          + Delta(Tail(led), u)

\* Signature verification is in force in this configuration.
VerificationEnabled == IF provider = "stripe" THEN secretOk ELSE production

\* ------------------------------------------------------------------ claims

\* C1: the success webhook for one pending transaction, delivered several
\* times concurrently, results in one balance mutation and one ledger entry:
\* no transaction has two ledger entries written by success-webhook handlers
\* (each entry is committed together with its balance mutation).
C1_Idempotency ==
  \A t \in TxIds :
    Cardinality({i \in EntriesOf(t) : ledger[i].via \in SuccessWebhookKinds}) <= 1

\* C2: of two acquireProcessingLock calls for the same transactionId running
\* concurrently exactly one returns true: no two handlers hold the lock of one
\* transaction at the same time.
C2_LockMutualExclusion ==
  \A h1 \in Handlers, h2 \in Handlers, t \in TxIds :
    (Holds(h1, t) /\ Holds(h2, t)) => h1 = h2

\* C3: the balance update, the ledger insert and (for a delivery payment) the
\* paid flag of one settlement are visible together or not at all: in every
\* state each balance is the initial balance moved by exactly the ledger
\* entries of its user, and a delivery is paid exactly when a debit entry for
\* it exists.
C3_AtomicSettlement ==
  /\ \A u \in Users : balance[u] = InitialBalance + Delta(ledger, u)
  /\ \A d \in Deliveries : deliveries[d].paid <=> DebitsOf(d) # {}

\* C3 witness: a delivery payment has committed and another settlement failed
\* on the way.
C3_Witness ==
  /\ deliveries[1].paid
  /\ \E h \in Handlers : req[h].pc = "done" /\ req[h].outcome = "error"

\* C4: settling twice for one delivery sets paid once and debits once: no
\* delivery has two debit ledger entries.
C4_SingleSettlement ==
  \A d \in Deliveries : Cardinality(DebitsOf(d)) <= 1

C6_GuaranteedRelease ==
  \A t \in TxIds : lock[t].exists => \E h \in Handlers : Holds(h, t)

\* C6 witness: a locking handler ended in an error and no lock record is left.
C6_Witness ==
  /\ \E h \in Handlers :
       req[h].pc = "done" /\ UsesLock(req[h].kind) /\ req[h].outcome = "error"
  /\ \A t \in TxIds : ~lock[t].exists

\* C7: when the provider webhook and a manual path run for the same pending
\* transaction at most one of them performs the balance mutation: no
\* transaction has a ledger entry by a webhook and another by a manual path.
C7_OneSettlementAcrossEntryPoints ==
  \A t \in TxIds : \A i \in EntriesOf(t), j \in EntriesOf(t) :
    ~(ledger[i].via \in SuccessWebhookKinds /\ ledger[j].via \in ManualKinds)

C9_AlwaysAcknowledged ==
  \A h \in Handlers :
    (req[h].pc = "done" /\ req[h].kind \in WebhookKinds /\ req[h].sigOk)
      => req[h].res = 200

\* C10 as stated: an event whose signature does not verify is rejected with
\* 400 before any lookup, in every configuration of the process: its handler
\* never reads, locks or writes, and no ledger entry stems from it.
C10_RejectedInEveryConfiguration ==
  /\ \A h \in Handlers :
       ~req[h].sigOk =>
         req[h].pc = "done" /\ req[h].res = 400 /\ req[h].outcome = "rejected"
  /\ \A i \in DOMAIN ledger : ledger[i].sigOk

\* C10 restricted: where signature verification is in force (Stripe: a webhook
\* secret that is set, not the placeholder and at least 20 characters; OPay:
\* NODE_ENV is production), an event whose signature does not verify is
\* rejected with 400 before any lookup.
C10_RejectedWhereVerified ==
  VerificationEnabled => C10_RejectedInEveryConfiguration

\* C10 witness: with verification in force and a pending record in the store,
\* an event with a bad signature was answered 400.
C10_Witness ==
  /\ VerificationEnabled
  /\ \E t \in TxIds : pending[t] # NoDoc
  /\ \E h \in Handlers :
       ~req[h].sigOk /\ req[h].pc = "done" /\ req[h].res = 400

\* C11: the success path verifies the stored integrity digest against the
\* decrypted record before it takes the lock, so no record whose stored hmac
\* is not the digest of its plaintext is settled: every ledger entry written
\* by a success webhook stems from a record whose hmac verified.
C11_IntegrityCheckedAtSettlement ==
  \A i \in DOMAIN ledger :
    ledger[i].via \in SuccessWebhookKinds => ledger[i].verified

\* C12: a success webhook for a pending record whose envelope does not decrypt
\* mutates nothing (no lock, no balance, ledger or delivery write, the pending
\* record stays) and is still acknowledged with 200.
C12_DecryptFailureAcknowledged ==
  [][ \A h \in Handlers :
        ( /\ req[h].pc = "getPending"
          /\ req[h].kind \in SuccessWebhookKinds
          /\ pending[req[h].tx] # NoDoc
          /\ ~Decrypts(envelope[req[h].tx])
          /\ req'[h] # req[h] )
        => ( /\ UNCHANGED <<lock, balance, ledger, deliveries, pending>>
             /\ req'[h].pc = "done"
             /\ req'[h].res = 200 ) ]_vars

\* The sum of the walletHistory entries of user u.
RECURSIVE HistoryDelta(_, _)
HistoryDelta(hist, u) ==
  IF hist = <<>> THEN 0
  ELSE (IF Head(hist).uid = u THEN Head(hist).amount ELSE 0)
       + HistoryDelta(Tail(hist), u)

\* C15: in every reachable state each change of a wallet.balance has exactly
\* one ledger entry of the same amount and direction and no entry lacks its
\* balance change: balance = initial balance + credits - debits of the uid,
\* counting the entries of transactions and of walletHistory.
C15_LedgerConsistency ==
  \A u \in Users :
    balance[u] = InitialBalance + Delta(ledger, u) + HistoryDelta(walletHistory, u)

\* C16: no update of a balance is lost: once every operation has returned,
\* each balance is the initial balance plus the deltas of all the operations
\* applied to it, whatever their interleaving.
C16_NoLostUpdate ==
  Quiet =>
    \A u \in Users :
      balance[u] - InitialBalance
        = Delta(ledger, u) + HistoryDelta(walletHistory, u)

\* A frame with this event about transaction t was sent to a connection of u.
Notified(box, u, event, t) ==
  \E f \in BagToSet(box) : f.event = event /\ f.tx = t /\ sockets[f.to].uid = u

\* The step that ends the handling of a failure callback for transaction t: the
\* delete of handlePaymentIntentFailed, or opayWebhook's return for a status
\* other than SUCCESS.
FailureHandled(h, t) ==
  \/ req[h].pc = "deleteFailed" /\ req[h].tx = t /\ req'[h].pc = "done"
  \/ OpayWebhook(h, FALSE, t, TRUE)

\* The step in which a failure callback looks transaction t up.
FailureLookup(h, t) ==
  \/ /\ req[h].pc = "getPending" /\ req[h].kind = "stripeFailed"
     /\ req[h].tx = t /\ req'[h] # req[h]
  \/ OpayWebhook(h, FALSE, t, TRUE)

\* C13: a provider callback reporting failure for a pending transaction pushes
\* payment_failed to the owner (when connected) and deletes the pending record,
\* with balance, ledger and deliveries unchanged; a failure callback for a
\* transaction without a pending record changes nothing.
C13_FailurePath ==
  [][ \A h \in Handlers, t \in TxIds :
        /\ (pending[t] # NoDoc /\ FailureHandled(h, t))
             => /\ pending'[t] = NoDoc
                /\ UNCHANGED <<balance, ledger, deliveries>>
                /\ Connected(pending[t].uid)
                     => Notified(outbox', pending[t].uid, "payment_failed", t)
        /\ (pending[t] = NoDoc /\ FailureLookup(h, t))
             => UNCHANGED <<pending, lock, balance, ledger, deliveries, outbox>>
    ]_vars

\* C14: when a delivery_payment settlement fails with insufficient funds, the
\* user, when connected, has been sent a failure notification for the
\* transaction by the time the handler returns.
C14_InsufficientFundsNotified ==
  [][ \A h \in Handlers :
        ( /\ req[h].failure = "InsufficientFunds"
          /\ req[h].pc = "release"
          /\ req'[h].pc = "done"
          /\ Connected(req[h].data.uid) )
        => Notified(outbox', req[h].data.uid, "payment_failed", req[h].tx)
    ]_vars

\* The step in which connection sock is registered for user u.
Registers(sock, u) ==
  /\ sockets[sock].stage # "attached"
  /\ sockets'[sock].stage = "attached"
  /\ sockets'[sock].uid = u

\* C17: when a connection authenticates for a uid that has a registered open
\* connection, the prior connection is closed and the registry maps the uid
\* to the new connection.
C17_Supersession ==
  [][ \A sock \in Sockets, u \in Users :
        (Registers(sock, u) /\ Connected(u))
          => /\ sockets'[wsClients[u]].readyState # "open"
             /\ wsClients'[u] = sock ]_vars

\* A frame received from the client of connection sock is handled.
ClientMessage(sock) ==
  \/ \E type \in {"ping", "ready_for_payment", "subscribe"} :
       StripeMessage(sock, type)
  \/ \E type \in {"ping", "api_request"},
         endpoint \in {"/api/payment/wallet/fund", "/api/payment/delivery/pay",
                       "/api/unknown"},
         d \in Deliveries, amount \in {JsonNumber(10)}, call \in CallOutcomes :
       OpayMessage(sock, type, endpoint, d, amount, call)

\* C18: no frame received from a client causes a privileged mutation: no
\* pending transaction, no provider charge, no balance, ledger or delivery
\* write; the only replies are those to ping and ready_for_payment.
C18_ReceiveMostly ==
  [][ \A sock \in Sockets :
        ClientMessage(sock)
          => /\ UNCHANGED <<pending, nextTx, charges, balance, ledger, deliveries>>
             /\ outbox' # outbox
                  => \E event \in {"pong", "payment_ready"} :
                       outbox' = Send(outbox, sock, event, 0) ]_vars

\* C19: every persisted pending transaction has 0 < amount <= 1,000,000 (an
\* initiation with any other amount being rejected with 400 before the
\* provider call and the pending record).
C19_AmountBound ==
  \A t \in TxIds :
    pending[t] # NoDoc => (0 < pending[t].amount /\ pending[t].amount <= MaxAmount)

\* C20: a delivery-payment initiation that got past the realtime and amount
\* checks for an existing delivery (and whose provider call, if it gets to one,
\* succeeds) is answered 403 when the delivery is not the
\* caller's or not confirmed, 400 when it is already paid, and in both cases
\* creates neither a charge nor a pending record; a pending delivery payment
\* is only ever created for a delivery that is the caller's, confirmed and
\* unpaid.
C20_DeliveryInitiationChecks ==
  [][ /\ ( /\ initRes'.handler = "initiateDeliveryPayment"
           /\ <<initRes, nextTx>>' # <<initRes, nextTx>>
           /\ initRes'.code \notin {"WEBSOCKET_REQUIRED", "InvalidDeliveryOrAmount",
                                    "DeliveryNotFound", "InitiationFailed",
                                    "ProviderDeclined"} )
         => LET d == initRes'.deliveryId
                mine == deliveries[d].userId = initRes'.uid
                confirmed == deliveries[d].status = "confirmed"
            IN IF ~(mine /\ confirmed)
               THEN initRes'.status = 403 /\ UNCHANGED <<pending, charges, nextTx>>
               ELSE IF deliveries[d].paid
               THEN initRes'.status = 400 /\ UNCHANGED <<pending, charges, nextTx>>
               ELSE initRes'.status = 200
      /\ \A t \in TxIds :
           (pending[t] = NoDoc /\ pending'[t].type = "delivery_payment")
             => LET d == pending'[t].deliveryId
                IN /\ deliveries[d].userId = pending'[t].uid
                   /\ deliveries[d].status = "confirmed"
                   /\ ~deliveries[d].paid ]_vars

\* C20 witness: initiations for a delivery have been answered 403 and, once it
\* was paid, 400 'Already paid', while a later request left no pending record.
C20_Witness ==
  /\ deliveries[1].paid
  /\ initRes.code = "AlreadyPaid"
  /\ initRes.status = 400
  /\ \A t \in TxIds : pending[t] = NoDoc

\* An initiation request whose provider call fails is handled.
FailedProviderCall ==
  \E call \in CallOutcomes \ {"ok"} :
    \/ \E u \in Users, amt \in FundAmounts :
         InitiateWalletFunding(u, JsonNumber(amt), 0, call)
    \/ \E u \in Users, d \in Deliveries, amt \in PayAmounts :
         InitiateDeliveryPayment(u, d, JsonNumber(amt), 0, call)

\* C21: an initiation whose provider call throws or returns a non-success code
\* ends with an error response and persists no pending record (nor records a
\* charge): a step that answers an initiation is no failed provider call
\* unless it answers with an error and writes nothing; every pending record
\* belongs to a transaction whose charge was created and carries the provider
\* reference.
C21_ProviderFailureAborts ==
  [][ /\ \/ UNCHANGED <<initRes, nextTx>>
         \/ /\ initRes'.status >= 400
            /\ UNCHANGED <<pending, charges, nextTx, envelope, hmac>>
         \/ ~FailedProviderCall
      /\ \A t \in TxIds :
           pending'[t] # NoDoc
             => t \in charges' /\ pending'[t].paymentIntentId = t ]_vars

\* C21 witness: after one transaction was initiated, a second initiation got
\* to the provider call, which failed, and only the first has a pending record.
C21_Witness ==
  /\ initRes.code \in {"InitiationFailed", "ProviderDeclined"}
  /\ pending[1] # NoDoc
  /\ pending[2] = NoDoc
  /\ charges = {1}

\* C22: an initiation (wallet funding or delivery payment) by a user who has
\* no registered open realtime connection is answered 400 WEBSOCKET_REQUIRED
\* and creates neither a provider charge nor a pending record.
C22_WebSocketFirst ==
  [][ ( /\ <<initRes, nextTx>>' # <<initRes, nextTx>>
        /\ ~Connected(initRes'.uid) )
      => /\ initRes'.status = 400
         /\ initRes'.code = "WEBSOCKET_REQUIRED"
         /\ UNCHANGED <<pending, charges, nextTx>> ]_vars

\* C23: for every stored record decryptData(encryptData(record)) is the
\* record, and decryptData on an envelope whose data, iv or tag is no longer
\* what encryptData wrote fails instead of returning a record.
C23_EnvelopeRoundTrip ==
  \A t \in TxIds :
    pending[t] # NoDoc
      => IF envelope[t] = EncryptData(pending[t], t)
         THEN DecryptData(envelope[t]) = [ok |-> TRUE, record |-> pending[t]]
         ELSE ~DecryptData(envelope[t]).ok

\* The step in which handler h reads a lock record that exists.
ReadsHeldLock(h) ==
  /\ req[h].pc = "lockRead"
  /\ lock[req[h].tx].exists
  /\ req'[h] # req[h]

\* C24 as stated: acquireProcessingLock on a transactionId whose lock record
\* exists leaves the lock record, lockedAt included, and all other stored
\* state unchanged, and the calling path ends there without reporting an error.
C24_ContentionBenign ==
  [][ \A h \in Handlers :
        ReadsHeldLock(h)
          => /\ UNCHANGED <<lock, pending, balance, version, ledger, deliveries,
                            envelope, hmac, outbox>>
             /\ req'[h].pc = "done"
             /\ req'[h].outcome = "contention"
             /\ req'[h].res < 400 ]_vars

\* C24 restricted: the same frame on every path; the provider webhooks end
\* with 200, the manual paths (confirmTransaction, test-complete-payment)
\* answer 400 'Transaction already processing'.
C24_ContentionNoMutation ==
  [][ \A h \in Handlers :
        ReadsHeldLock(h)
          => /\ UNCHANGED <<lock, pending, balance, version, ledger, deliveries,
                            envelope, hmac, outbox>>
             /\ req'[h].pc = "done"
             /\ req'[h].outcome = "contention"
             /\ req'[h].res = (IF req[h].kind \in SuccessWebhookKinds
                               THEN 200 ELSE 400) ]_vars

\* C24 witness: a handler found the lock of its transaction held by another
\* request and returned, and the lock record still is the other request's.
C24_Witness ==
  \E h \in Handlers, g \in Handlers :
    /\ req[h].pc = "done"
    /\ req[h].outcome = "contention"
    /\ Holds(g, 1)
    /\ lock[1] = [exists |-> TRUE, lockedAt |-> g]
    /\ ledger = <<>>

\* The step in which acquireProcessingLock of handler h throws.
LockStoreFails(h) == AcquireLockReadFails(h) \/ AcquireLockSetFails(h)

\* C25: when the read or the write of the lock store fails inside
\* acquireProcessingLock, the settlement does not run (no balance, ledger or
\* delivery write), the pending record is kept and the failed call leaves no
\* lock record behind: no lock record exists that no running handler holds, so
\* a redelivered webhook can take the lock and settle.
C25_FailClosed ==
  [][ \A h \in Handlers :
        LockStoreFails(h)
          => /\ UNCHANGED <<lock, pending, envelope, balance, version, ledger,
                            deliveries>>
             /\ req'[h].pc = "done"
             /\ req'[h].res = 500
             /\ \A t \in TxIds :
                  lock'[t].exists
                    => \E g \in Handlers \ {h} :
                         /\ UsesLock(req'[g].kind)
                         /\ req'[g].tx = t
                         /\ req'[g].pc \in {"txGet", "txCommit", "deletePending",
                                            "release"} ]_vars

\* C25 witness: the lock store failed for the first delivery of transaction
\* 1, and the redelivery settled it: one ledger entry, the pending record
\* deleted, no lock record left.
C25_Witness ==
  /\ req[1].pc = "done" /\ req[1].outcome = "lockError"
  /\ req[2].pc = "done" /\ req[2].outcome = "settled"
  /\ Cardinality(EntriesOf(1)) = 1
  /\ pending[1] = NoDoc
  /\ ~lock[1].exists

\* The events notifyUser is called with on a settlement.
SuccessEvents == {"wallet_funded", "delivery_paid", "wallet_balance_update"}

\* C26: the success notification of a settlement is emitted only after the
\* atomic mutation has committed and once per committed settlement: at every
\* moment the success frames sent about a transaction are no more than the
\* ledger entries committed for it.
C26_NotifiedAfterCommit ==
  \A f \in BagToSet(outbox) :
    (f.event \in SuccessEvents /\ f.tx # 0)
      => CopiesIn(f, outbox) <= Cardinality(EntriesOf(f.tx))

\* C27: over any sequence of success deliveries for one transactionId the
\* balance mutation is applied at most once, also when the mutation commits,
\* the delete of the pending record fails and the webhook is redelivered: no
\* two distinct ledger entries written by success webhooks are of the same
\* transaction.
C27_ExactlyOnceAcrossRetries ==
  \A i \in DOMAIN ledger, j \in DOMAIN ledger :
    ( /\ ledger[i].tx = ledger[j].tx
      /\ ledger[i].via \in SuccessWebhookKinds
      /\ ledger[j].via \in SuccessWebhookKinds )
    => i = j

\* The 'close' or 'error' event of connection sock is handled.
Closes(sock) ==
  /\ sockets[sock].readyState \in {"open", "closing"}
  /\ sockets'[sock].readyState = "closed"

\* C28: while the connection a user registered last is open the registry maps
\* the uid to it: the close or error event of another, earlier connection of
\* the uid leaves that entry in place.
C28_RegistryFreshness ==
  [][ \A sock \in Sockets, u \in Users :
        ( /\ Closes(sock)
          /\ sockets[sock].uid = u
          /\ wsClients[u] # sock
          /\ Connected(u) )
        => wsClients'[u] = wsClients[u] ]_vars

\* C29: in a production configuration a wallet_funding credit is applied
\* only by a provider callback that reports success and whose signature
\* verified, never by a request of an authenticated user (/transaction/confirm,
\* /manual-update): every ledger entry of a wallet funding was written by a
\* success webhook whose event was signed by the provider.
C29_CreditOnlyOnProviderConfirmation ==
  production
    => \A i \in DOMAIN ledger :
         ledger[i].txType = "wallet_funding"
           => ledger[i].via \in SuccessWebhookKinds /\ ledger[i].sigOk

\* Transaction t is settled: credited once, its pending record deleted, no
\* lock record left.
Settled(t) ==
  /\ Cardinality(EntriesOf(t)) = 1
  /\ pending[t] = NoDoc
  /\ ~lock[t].exists

\* C30: for a pending wallet_funding transaction whose success webhook is
\* delivered, and redelivered after any response other than 200, with handlers
\* that run to completion, eventually the balance is credited once, the
\* pending record is deleted and no lock record of the transaction remains.
C30_SettlementLiveness ==
  (pending[1] # NoDoc /\ pending[1].type = "wallet_funding") ~> Settled(1)

====
